---- MODULE Spec2Model ----
(***************************************************************************)
(* Model of media/bufferpool/aidl/default/BufferStatus.cpp:                *)
(*   BufferStatusObserver / BufferStatusChannel   (per-connection status   *)
(*   queues, synchronized FMQ, one writer and one reader per queue) and    *)
(*   BufferInvalidationChannel / BufferInvalidationListener (one broadcast *)
(*   queue, unsynchronized FMQ, one read cursor per listener).             *)
(*                                                                         *)
(* The message queue itself is a library outside this file.  It is         *)
(* modelled by its interface: a synchronized queue is a bounded FIFO whose *)
(* write fails when full and whose read fails when empty; an               *)
(* unsynchronized queue never refuses a write, gives each attached reader  *)
(* a read position of its own that starts at the oldest record, leaves the *)
(* write position alone when a reader attaches, and fails a read (moving   *)
(* the reader to the write position) once the writer has lapped it.        *)
(*                                                                         *)
(* SpecArith        the wraparound comparison helpers on every input       *)
(* SpecWriters      every operation that writes to a queue                 *)
(* Spec             the observer with two connections                      *)
(* SpecChannel      one connection's channel: release, ack, status post    *)
(* SpecInvalidation the broadcast channel and two listeners, with          *)
(*                  getInvalidations split at its queue accesses           *)
(* SpecConcurrent   one channel and the observer on one queue, every call  *)
(*                  split at its queue accesses                            *)
(* SpecSpurious     one channel, with a spurious client writing to its     *)
(*                  queue (write failures)                                 *)
(* SpecDrain        the drain of two connections split at its queue        *)
(*                  accesses while both channels post; SpecDrainFair adds  *)
(*                  that the draining thread keeps running                 *)
(* SpecDrainSpurious the same with a spurious client reading (read         *)
(*                  failures)                                              *)
(***************************************************************************)
EXTENDS Integers, Sequences, FiniteSets, TLC

(* ---------------------------------------------------------------------- *)
(* Sizes.  The queue capacity is the program's constant, scaled down.      *)
(* ---------------------------------------------------------------------- *)
kNumElementsInQueue == 2

MaxList == 3

MaxMessages == 3

ConnectionIds == {1, 2}

BufferIds == {10, 11}

InvalidateIds == {5}

\* sample arguments of postBufferStatusMessage:
\* <<transactionId, bufferId, status, connectionId, targetId>>
StatusArgs == {<<7, 12, "USED", 1, 2>>, <<8, 13, "TRANSFER_TO", 2, 1>>}

\* the sample arguments whose connectionId is not the posting connection's own
OtherLabel(id) == CHOOSE a \in StatusArgs : a[4] # id

MaxPosts == 3

Listeners == {1, 2}

\* sample arguments of postInvalidation: <<msgId, fromId, toId>>
InvalidationArgs == {<<1, 10, 12>>, <<2, 12, 10>>}

\* width of the wrapping id space (uint32_t in the program, scaled down)
IdBits == 3

IdSpace == 0..(2^IdBits - 1)

VARIABLES
    mBufferStatusQueues,   \* BufferStatusObserver: ConnectionId -> queue contents
    chan,                  \* per connection: "none" | "valid" | "invalid" (BufferStatusChannel::mValid)
    pending,               \* per connection: caller-owned std::list<BufferId>
    posted,                \* per connection: caller-owned std::list<BufferId>
    invalidated,           \* per connection: caller-owned bool passed to postBufferInvalidateAck
    messages,              \* the std::vector the observer's caller passes to getBufferStatusChanges
    chanCall,              \* per connection: the BufferStatusChannel call in progress, where it
                           \*   stands between its queue accesses, its locals, and history of
                           \*   the call (lists at entry, records written so far)
    obsCall,               \* the getBufferStatusChanges call in progress: where it stands, the
                           \*   registry keys still to visit, the remaining avail of the current one
    mBufferInvalidationQueue, \* the broadcast queue's shared memory: ring slots and write position
    listener,              \* per BufferInvalidationListener: mValid, its own read position,
                           \*   and where it stands inside getInvalidations
    invMessages,           \* per listener: the std::vector its caller passes to getInvalidations
    invLog,                \* history: every record postInvalidation wrote, in order
    hist,                  \* history per listener: write position when it attached, all records
                           \*   getInvalidations appended since, whether a read of it overflowed,
                           \*   write position when its latest getInvalidations call was entered
    lastOp                 \* the call just made: its name, return value and arguments
                           \* (for list and flag arguments: their size / value at entry)

statusVars == <<mBufferStatusQueues, chan, pending, posted, invalidated, messages,
                chanCall, obsCall>>

callVars == <<chanCall, obsCall>>

invVars == <<mBufferInvalidationQueue, listener, invMessages, invLog, hist>>

vars == <<mBufferStatusQueues, chan, pending, posted, invalidated, messages,
          chanCall, obsCall, mBufferInvalidationQueue, listener, invMessages, invLog, hist, lastOp>>

(* ---------------------------------------------------------------------- *)
(* BufferStatusMessage: the AIDL parcelable, every field defaulting to 0.  *)
(* ---------------------------------------------------------------------- *)
BufferStatusMessage ==
    [bufferId |-> 0, status |-> "NOT_USED", connectionId |-> 0,
     targetConnectionId |-> 0, transactionId |-> 0, timestampUs |-> 0]

(* ---------------------------------------------------------------------- *)
(* The synchronized status queue: a bounded FIFO of records.               *)
(* ---------------------------------------------------------------------- *)
availableToRead(q) == Len(q)

availableToWrite(q) == kNumElementsInQueue - Len(q)

\* write(&m, 1): fails when no slot is free, otherwise appends the record
FmqWrite(q, m) ==
    IF availableToWrite(q) >= 1
    THEN [ok |-> TRUE, q |-> Append(q, m)]
    ELSE [ok |-> FALSE, q |-> q]

\* read(&m, 1): fails when nothing is readable, otherwise removes the oldest record
FmqRead(q) ==
    IF availableToRead(q) >= 1
    THEN [ok |-> TRUE, q |-> Tail(q), m |-> Head(q)]
    ELSE [ok |-> FALSE, q |-> q, m |-> BufferStatusMessage]

Min(a, b) == IF a < b THEN a ELSE b

\* the record of a call: confirmed is what availableToWrite() returned to the
\* call (0 when the call did not ask), writes the number of write() calls made
Op(name, id, ret, arg) ==
    [op |-> name, id |-> id, ret |-> ret, arg |-> arg, confirmed |-> 0, writes |-> 0]

WriterOp(name, id, ret, arg, confirmed, writes) ==
    [Op(name, id, ret, arg) EXCEPT !.confirmed = confirmed, !.writes = writes]

\* no channel call in progress
NoCall ==
    [pc |-> "idle", n |-> 0, arg |-> <<>>, pending0 |-> <<>>, posted0 |-> <<>>, written |-> <<>>]

\* no getBufferStatusChanges call in progress
NoDrain == [pc |-> "idle", todo |-> {}, avail |-> 0]

(* ---------------------------------------------------------------------- *)
(* Wraparound arithmetic                                                   *)
(* ---------------------------------------------------------------------- *)
\* unsigned arithmetic of the id width: the value of x as a uint
Wrap(x) == (x + 2^IdBits) % (2^IdBits)

\* the comparison with || in place of &&
isMessageLater_Or(curMsgId, prevMsgId) ==
    curMsgId # prevMsgId \/ Wrap(curMsgId - prevMsgId) < Wrap(prevMsgId - curMsgId)

isMessageLater(curMsgId, prevMsgId) ==
    curMsgId # prevMsgId /\ Wrap(curMsgId - prevMsgId) < Wrap(prevMsgId - curMsgId)

\* the range test with an inclusive upper end
isBufferInRange_Inclusive(from, to, bufferId) ==
    IF from < to
    THEN from <= bufferId /\ bufferId <= to
    ELSE from <= bufferId \/ bufferId <= to

\* the range test taking from == to as an ordinary (empty) interval
isBufferInRange_EqualNotWrapped(from, to, bufferId) ==
    IF from <= to
    THEN from <= bufferId /\ bufferId < to
    ELSE from <= bufferId \/ bufferId < to

isBufferInRange(from, to, bufferId) ==
    IF from < to
    THEN from <= bufferId /\ bufferId < to
    ELSE from <= bufferId \/ bufferId < to

\* a call of isMessageLater
isMessageLaterCall(curMsgId, prevMsgId) ==
    /\ lastOp' = Op("isMessageLater", 0, isMessageLater(curMsgId, prevMsgId),
                    <<curMsgId, prevMsgId>>)
    /\ UNCHANGED statusVars
    /\ UNCHANGED invVars

\* a call of isBufferInRange
isBufferInRangeCall(from, to, bufferId) ==
    /\ lastOp' = Op("isBufferInRange", 0, isBufferInRange(from, to, bufferId),
                    <<from, to, bufferId>>)
    /\ UNCHANGED statusVars
    /\ UNCHANGED invVars

(* ---------------------------------------------------------------------- *)
(* BufferStatusObserver                                                    *)
(* ---------------------------------------------------------------------- *)
\* open() without the collision check: a second open re-creates the queue
open_NoCollisionCheck(id, queueOk) ==
    /\ obsCall.pc = "idle"
    /\ IF ~queueOk
       THEN /\ lastOp' = Op("open", id, "NO_MEMORY", <<>>)
            /\ UNCHANGED mBufferStatusQueues
       ELSE /\ mBufferStatusQueues' =
                  [c \in DOMAIN mBufferStatusQueues \cup {id} |->
                      IF c = id THEN <<>> ELSE mBufferStatusQueues[c]]
            /\ lastOp' = Op("open", id, "OK", <<>>)
    /\ UNCHANGED <<chan, pending, posted, invalidated, messages>>
    /\ UNCHANGED callVars
    /\ UNCHANGED invVars

\* open(id, fmqDescPtr); queueOk is the outcome of constructing the queue
open(id, queueOk) ==
    /\ obsCall.pc = "idle"
    /\ IF id \in DOMAIN mBufferStatusQueues
       THEN /\ lastOp' = Op("open", id, "CRITICAL_ERROR", <<>>)
            /\ UNCHANGED mBufferStatusQueues
       ELSE IF ~queueOk
       THEN /\ lastOp' = Op("open", id, "NO_MEMORY", <<>>)
            /\ UNCHANGED mBufferStatusQueues
       ELSE /\ mBufferStatusQueues' =
                  [c \in DOMAIN mBufferStatusQueues \cup {id} |->
                      IF c = id THEN <<>> ELSE mBufferStatusQueues[c]]
            /\ lastOp' = Op("open", id, "OK", <<>>)
    /\ UNCHANGED <<chan, pending, posted, invalidated, messages>>
    /\ UNCHANGED callVars
    /\ UNCHANGED invVars

\* close(id).  A connection's channel is torn down before its queue is
\* closed, so a registered id is closed only once no writer is attached.
close(id) ==
    /\ chan[id] # "valid"
    /\ IF id \notin DOMAIN mBufferStatusQueues
       THEN /\ lastOp' = Op("close", id, "CRITICAL_ERROR", <<>>)
            /\ UNCHANGED mBufferStatusQueues
       ELSE /\ mBufferStatusQueues' =
                  [c \in DOMAIN mBufferStatusQueues \ {id} |-> mBufferStatusQueues[c]]
            /\ lastOp' = Op("close", id, "OK", <<>>)
    /\ UNCHANGED <<chan, pending, posted, invalidated, messages>>
    /\ UNCHANGED callVars
    /\ UNCHANGED invVars

\* iteration from the largest key downwards
MinKey_Descending(S) == CHOOSE x \in S : \A y \in S : x >= y

\* The registry is a std::map: iteration is in increasing key order.
MinKey(S) == CHOOSE x \in S : \A y \in S : x <= y

\* the drain loop without line 83: the record keeps the writer's connectionId
RECURSIVE DrainQueue_NoTag(_, _, _, _)
DrainQueue_NoTag(id, q, avail, out) ==
    IF avail > 0
    THEN LET r == FmqRead(q)
         IN  IF ~r.ok
             THEN [q |-> r.q, out |-> out, failed |-> TRUE]
             ELSE DrainQueue_NoTag(id, r.q, avail - 1, Append(out, r.m))
    ELSE [q |-> q, out |-> out, failed |-> FALSE]

\* the inner while loop of getBufferStatusChanges on one queue:
\* reads avail records, tagging each with the registry key
RECURSIVE DrainQueue(_, _, _, _)
DrainQueue(id, q, avail, out) ==
    IF avail > 0
    THEN LET r == FmqRead(q)
         IN  IF ~r.ok
             THEN [q |-> r.q, out |-> out, failed |-> TRUE]
             ELSE DrainQueue(id, r.q, avail - 1,
                             Append(out, [r.m EXCEPT !.connectionId = id]))
    ELSE [q |-> q, out |-> out, failed |-> FALSE]

\* the outer for loop over the registry, keys still to visit in todo
RECURSIVE DrainAll(_, _, _)
DrainAll(queues, todo, out) ==
    IF todo = {}
    THEN [queues |-> queues, out |-> out]
    ELSE LET id == MinKey(todo)
             d  == DrainQueue(id, queues[id], availableToRead(queues[id]), out)
             qs == [queues EXCEPT ![id] = d.q]
         IN  IF d.failed
             THEN [queues |-> qs, out |-> d.out]
             ELSE DrainAll(qs, todo \ {id}, d.out)

TotalAvailable ==
    LET RECURSIVE Sum(_)
        Sum(S) == IF S = {} THEN 0
                  ELSE LET x == MinKey(S)
                       IN  Len(mBufferStatusQueues[x]) + Sum(S \ {x})
    IN  Sum(DOMAIN mBufferStatusQueues)

\* getBufferStatusChanges(messages): the caller passes the vector in; keep says
\* whether the caller still holds the vector afterwards or drops the batch
getBufferStatusChanges(in, keep) ==
    /\ Len(in) + TotalAvailable <= MaxMessages
    /\ LET d == DrainAll(mBufferStatusQueues, DOMAIN mBufferStatusQueues, in)
       IN  /\ mBufferStatusQueues' = d.queues
           /\ messages' = IF keep THEN d.out ELSE <<>>
           /\ lastOp' = Op("getBufferStatusChanges", 0, "void", <<Len(in), Len(d.out)>>)
    /\ UNCHANGED <<chan, pending, posted, invalidated>>
    /\ UNCHANGED callVars
    /\ UNCHANGED invVars

(* ---------------------------------------------------------------------- *)
(* BufferStatusChannel                                                     *)
(* ---------------------------------------------------------------------- *)
\* BufferStatusChannel(fmqDesc): attaches to the queue open(id) created;
\* attachOk is queue->isValid() of the attached queue
BufferStatusChannel(id, attachOk) ==
    /\ chan[id] = "none"
    /\ chan' = [chan EXCEPT ![id] =
                   IF id \in DOMAIN mBufferStatusQueues /\ attachOk
                   THEN "valid" ELSE "invalid"]
    /\ lastOp' = Op("BufferStatusChannel", id, chan'[id], <<>>)
    /\ UNCHANGED <<mBufferStatusQueues, pending, posted, invalidated, messages>>
    /\ UNCHANGED callVars
    /\ UNCHANGED invVars

\* the connection goes away: its channel is destroyed
DestroyChannel(id) ==
    /\ chan[id] # "none"
    /\ chan' = [chan EXCEPT ![id] = "none"]
    /\ lastOp' = Op("DestroyChannel", id, "void", <<>>)
    /\ UNCHANGED <<mBufferStatusQueues, pending, posted, invalidated, messages>>
    /\ UNCHANGED callVars
    /\ UNCHANGED invVars

isValid(id) == chan[id] = "valid"

\* the release loop taking pending.back() instead of pending.front()
RECURSIVE ReleaseLoop_FromBack(_, _, _, _, _)
ReleaseLoop_FromBack(q, pend, post, connectionId, n) ==
    IF n = 0
    THEN [q |-> q, pending |-> pend, posted |-> post, failed |-> FALSE]
    ELSE LET id == pend[Len(pend)]
             message == [BufferStatusMessage EXCEPT
                            !.status = "NOT_USED", !.bufferId = id,
                            !.connectionId = connectionId]
             w == FmqWrite(q, message)
         IN  IF ~w.ok
             THEN [q |-> w.q, pending |-> pend, posted |-> post, failed |-> TRUE]
             ELSE ReleaseLoop_FromBack(w.q, SubSeq(pend, 1, Len(pend) - 1),
                                       Append(post, id), connectionId, n - 1)

\* the for loop of postBufferRelease: n writes still to do
RECURSIVE ReleaseLoop(_, _, _, _, _)
ReleaseLoop(q, pend, post, connectionId, n) ==
    IF n = 0
    THEN [q |-> q, pending |-> pend, posted |-> post, failed |-> FALSE]
    ELSE LET id == Head(pend)
             message == [BufferStatusMessage EXCEPT
                            !.status = "NOT_USED", !.bufferId = id,
                            !.connectionId = connectionId]
             w == FmqWrite(q, message)
         IN  IF ~w.ok
             THEN [q |-> w.q, pending |-> pend, posted |-> post, failed |-> TRUE]
             ELSE ReleaseLoop(w.q, Tail(pend), Append(post, id), connectionId, n - 1)

\* write() calls a release loop made: one per entry moved, and the failed one
WritesOf(r, post) == Len(r.posted) - Len(post) + (IF r.failed THEN 1 ELSE 0)

\* postBufferRelease writing one record per pending entry without asking
\* availableToWrite()
postBufferRelease_NoCapacityCheck(id, connectionId) ==
    /\ chan[id] # "none"
    /\ IF isValid(id) /\ Len(pending[id]) > 0
       THEN LET q == mBufferStatusQueues[id]
                avail == Len(pending[id])
                r == ReleaseLoop(q, pending[id], posted[id], connectionId, avail)
            IN  /\ mBufferStatusQueues' = [mBufferStatusQueues EXCEPT ![id] = r.q]
                /\ pending' = [pending EXCEPT ![id] = r.pending]
                /\ posted' = [posted EXCEPT ![id] = r.posted]
                /\ lastOp' = WriterOp("postBufferRelease", id, "void",
                                      <<connectionId, Len(pending[id]), Len(posted[id])>>,
                                      0, WritesOf(r, posted[id]))
       ELSE /\ UNCHANGED <<mBufferStatusQueues, pending, posted>>
            /\ lastOp' = Op("postBufferRelease", id, "void",
                            <<connectionId, Len(pending[id]), Len(posted[id])>>)
    /\ UNCHANGED <<chan, invalidated, messages>>
    /\ UNCHANGED callVars
    /\ UNCHANGED invVars

postBufferRelease(id, connectionId) ==
    /\ chan[id] # "none"
    /\ IF isValid(id) /\ Len(pending[id]) > 0
       THEN LET q == mBufferStatusQueues[id]
                avail == Min(availableToWrite(q), Len(pending[id]))
                r == ReleaseLoop(q, pending[id], posted[id], connectionId, avail)
            IN  /\ mBufferStatusQueues' = [mBufferStatusQueues EXCEPT ![id] = r.q]
                /\ pending' = [pending EXCEPT ![id] = r.pending]
                /\ posted' = [posted EXCEPT ![id] = r.posted]
                /\ lastOp' = WriterOp("postBufferRelease", id, "void",
                                      <<connectionId, Len(pending[id]), Len(posted[id])>>,
                                      availableToWrite(q), WritesOf(r, posted[id]))
       ELSE /\ UNCHANGED <<mBufferStatusQueues, pending, posted>>
            /\ lastOp' = Op("postBufferRelease", id, "void",
                            <<connectionId, Len(pending[id]), Len(posted[id])>>)
    /\ UNCHANGED <<chan, invalidated, messages>>
    /\ UNCHANGED callVars
    /\ UNCHANGED invVars

\* postBufferInvalidateAck that sets the flag whether or not a slot was free
postBufferInvalidateAck_AlwaysFlag(id, connectionId, invalidateId) ==
    /\ chan[id] # "none"
    /\ IF isValid(id) /\ ~invalidated[id]
       THEN LET q == mBufferStatusQueues[id]
                message == [BufferStatusMessage EXCEPT
                               !.status = "INVALIDATION_ACK",
                               !.bufferId = invalidateId,
                               !.connectionId = connectionId]
                w == FmqWrite(q, message)
            IN  /\ mBufferStatusQueues' = [mBufferStatusQueues EXCEPT ![id] = w.q]
                /\ invalidated' = [invalidated EXCEPT ![id] = TRUE]
                /\ lastOp' = WriterOp("postBufferInvalidateAck", id, "void",
                                      <<connectionId, invalidateId, invalidated[id]>>, 0, 1)
       ELSE /\ UNCHANGED <<mBufferStatusQueues, invalidated>>
            /\ lastOp' = Op("postBufferInvalidateAck", id, "void",
                            <<connectionId, invalidateId, invalidated[id]>>)
    /\ UNCHANGED <<chan, pending, posted, messages>>
    /\ UNCHANGED callVars
    /\ UNCHANGED invVars

postBufferInvalidateAck(id, connectionId, invalidateId) ==
    /\ chan[id] # "none"
    /\ IF isValid(id) /\ ~invalidated[id]
       THEN LET q == mBufferStatusQueues[id]
                avail == availableToWrite(q)
                message == [BufferStatusMessage EXCEPT
                               !.status = "INVALIDATION_ACK",
                               !.bufferId = invalidateId,
                               !.connectionId = connectionId]
                w == FmqWrite(q, message)
            IN  /\ IF avail > 0
                   THEN /\ mBufferStatusQueues' = [mBufferStatusQueues EXCEPT ![id] = w.q]
                        /\ invalidated' = [invalidated EXCEPT ![id] = IF w.ok THEN TRUE ELSE @]
                   ELSE UNCHANGED <<mBufferStatusQueues, invalidated>>
                /\ lastOp' = WriterOp("postBufferInvalidateAck", id, "void",
                                      <<connectionId, invalidateId, invalidated[id]>>,
                                      avail, IF avail > 0 THEN 1 ELSE 0)
       ELSE /\ UNCHANGED <<mBufferStatusQueues, invalidated>>
            /\ lastOp' = Op("postBufferInvalidateAck", id, "void",
                            <<connectionId, invalidateId, invalidated[id]>>)
    /\ UNCHANGED <<chan, pending, posted, messages>>
    /\ UNCHANGED callVars
    /\ UNCHANGED invVars

\* postBufferStatusMessage with the capacity test off by one (avail >= numPending)
StatusMessageResult_OffByOne(q, pend, post, transactionId, bufferId, status, connectionId, targetId) ==
    LET avail == availableToWrite(q)
        numPending == Len(pend)
        r == ReleaseLoop(q, pend, post, connectionId, numPending)
        message == [BufferStatusMessage EXCEPT
                       !.transactionId = transactionId, !.bufferId = bufferId,
                       !.status = status, !.connectionId = connectionId,
                       !.targetConnectionId = targetId, !.timestampUs = 0]
        w == FmqWrite(r.q, message)
    IN  IF avail >= numPending
        THEN IF r.failed
             THEN [q |-> r.q, pending |-> r.pending, posted |-> r.posted, ret |-> FALSE]
             ELSE [q |-> w.q, pending |-> r.pending, posted |-> r.posted, ret |-> w.ok]
        ELSE [q |-> q, pending |-> pend, posted |-> post, ret |-> FALSE]

\* postBufferStatusMessage that writes the status message without flushing pending
StatusMessageResult_NoFlush(q, pend, post, transactionId, bufferId, status, connectionId, targetId) ==
    LET avail == availableToWrite(q)
        numPending == Len(pend)
        message == [BufferStatusMessage EXCEPT
                       !.transactionId = transactionId, !.bufferId = bufferId,
                       !.status = status, !.connectionId = connectionId,
                       !.targetConnectionId = targetId, !.timestampUs = 0]
        w == FmqWrite(q, message)
    IN  IF avail >= numPending + 1
        THEN [q |-> w.q, pending |-> pend, posted |-> post, ret |-> w.ok]
        ELSE [q |-> q, pending |-> pend, posted |-> post, ret |-> FALSE]

\* the value postBufferStatusMessage computes: new queue, lists and return value
StatusMessageResult(q, pend, post, transactionId, bufferId, status, connectionId, targetId) ==
    LET avail == availableToWrite(q)
        numPending == Len(pend)
        r == ReleaseLoop(q, pend, post, connectionId, numPending)
        message == [BufferStatusMessage EXCEPT
                       !.transactionId = transactionId, !.bufferId = bufferId,
                       !.status = status, !.connectionId = connectionId,
                       !.targetConnectionId = targetId, !.timestampUs = 0]
        w == FmqWrite(r.q, message)
    IN  IF avail >= numPending + 1
        THEN IF r.failed
             THEN [q |-> r.q, pending |-> r.pending, posted |-> r.posted, ret |-> FALSE]
             ELSE [q |-> w.q, pending |-> r.pending, posted |-> r.posted, ret |-> w.ok]
        ELSE [q |-> q, pending |-> pend, posted |-> post, ret |-> FALSE]

postBufferStatusMessage(id, transactionId, bufferId, status, connectionId, targetId) ==
    /\ chan[id] # "none"
    /\ IF isValid(id)
       THEN LET r == StatusMessageResult(mBufferStatusQueues[id], pending[id], posted[id],
                        transactionId, bufferId, status, connectionId, targetId)
                avail == availableToWrite(mBufferStatusQueues[id])
            IN  /\ mBufferStatusQueues' = [mBufferStatusQueues EXCEPT ![id] = r.q]
                /\ pending' = [pending EXCEPT ![id] = r.pending]
                /\ posted' = [posted EXCEPT ![id] = r.posted]
                /\ lastOp' = WriterOp("postBufferStatusMessage", id, r.ret,
                                <<transactionId, bufferId, status, connectionId, targetId,
                                  Len(pending[id])>>,
                                avail,
                                IF avail >= Len(pending[id]) + 1
                                THEN Len(r.q) - Len(mBufferStatusQueues[id])
                                        + (IF r.ret THEN 0 ELSE 1)
                                ELSE 0)
       ELSE /\ UNCHANGED <<mBufferStatusQueues, pending, posted>>
            /\ lastOp' = Op("postBufferStatusMessage", id, FALSE,
                            <<transactionId, bufferId, status, connectionId, targetId,
                                  Len(pending[id])>>)
    /\ UNCHANGED <<chan, invalidated, messages>>
    /\ UNCHANGED callVars
    /\ UNCHANGED invVars

(* ---------------------------------------------------------------------- *)
(* The connection logic that owns pending / posted / invalidated           *)
(* ---------------------------------------------------------------------- *)
\* a buffer is released: its id is queued for a release notification
ReleaseBuffer(id, bufferId) ==
    /\ chanCall[id].pc = "idle"
    /\ Len(pending[id]) + Len(posted[id]) < MaxList
    /\ pending' = [pending EXCEPT ![id] = Append(@, bufferId)]
    /\ lastOp' = Op("ReleaseBuffer", id, "void", <<bufferId>>)
    /\ UNCHANGED <<mBufferStatusQueues, chan, posted, invalidated, messages>>
    /\ UNCHANGED callVars
    /\ UNCHANGED invVars

\* the caller consumes the posted list
ClearPosted(id) ==
    /\ posted[id] # <<>>
    /\ posted' = [posted EXCEPT ![id] = <<>>]
    /\ lastOp' = Op("ClearPosted", id, "void", <<>>)
    /\ UNCHANGED <<mBufferStatusQueues, chan, pending, invalidated, messages>>
    /\ UNCHANGED callVars
    /\ UNCHANGED invVars

\* a new invalidation arrives that has not been acknowledged yet
NewInvalidation(id) ==
    /\ invalidated[id]
    /\ invalidated' = [invalidated EXCEPT ![id] = FALSE]
    /\ lastOp' = Op("NewInvalidation", id, "void", <<>>)
    /\ UNCHANGED <<mBufferStatusQueues, chan, pending, posted, messages>>
    /\ UNCHANGED callVars
    /\ UNCHANGED invVars

(* ---------------------------------------------------------------------- *)
(* The channel's calls step by step: one step per queue access, so that    *)
(* the reader and any other holder of the queue can run in between.        *)
(* lastOp.ret is "pending" while the call goes on, else its return value   *)
(* ("void", "true", "false");                                              *)
(* lastOp.arg names the step and gives the result of its queue access.     *)
(* ---------------------------------------------------------------------- *)
ReleaseMessage(bufferId, connectionId) ==
    [BufferStatusMessage EXCEPT
        !.status = "NOT_USED", !.bufferId = bufferId, !.connectionId = connectionId]

\* the call in progress after one more record has been written
Continue(c, pc, n, message) ==
    [c EXCEPT !.pc = pc, !.n = n, !.written = Append(@, message)]

\* postBufferRelease up to its availableToWrite() (lines 113-119)
postBufferReleaseBegin(id, connectionId) ==
    /\ chan[id] # "none"
    /\ chanCall[id].pc = "idle"
    /\ IF isValid(id) /\ Len(pending[id]) > 0
       THEN LET free == availableToWrite(mBufferStatusQueues[id])
                avail == Min(free, Len(pending[id]))
            IN  /\ chanCall' = [chanCall EXCEPT ![id] =
                       IF avail > 0
                       THEN [pc |-> "release", n |-> avail, arg |-> <<connectionId>>,
                             pending0 |-> pending[id], posted0 |-> posted[id],
                             written |-> <<>>]
                       ELSE NoCall]
                /\ lastOp' = WriterOp("postBufferRelease", id,
                                      IF avail > 0 THEN "pending" ELSE "void",
                                      <<"avail", free, TRUE>>, free, 0)
       ELSE /\ UNCHANGED chanCall
            /\ lastOp' = Op("postBufferRelease", id, "void", <<"entry", 0, TRUE>>)
    /\ UNCHANGED <<mBufferStatusQueues, chan, pending, posted, invalidated, messages, obsCall>>
    /\ UNCHANGED invVars

\* one iteration of the release loop that drops the entry without recording
\* it in posted
postBufferReleaseWrite_PopOnly(id) ==
    /\ chanCall[id].pc = "release"
    /\ LET c == chanCall[id]
           message == ReleaseMessage(Head(pending[id]), c.arg[1])
           w == FmqWrite(mBufferStatusQueues[id], message)
       IN  IF ~w.ok
           THEN /\ chanCall' = [chanCall EXCEPT ![id] = NoCall]
                /\ lastOp' = WriterOp("postBufferRelease", id, "void", <<"write", 0, FALSE>>, 0, 1)
                /\ UNCHANGED <<mBufferStatusQueues, pending, posted>>
           ELSE /\ mBufferStatusQueues' = [mBufferStatusQueues EXCEPT ![id] = w.q]
                /\ pending' = [pending EXCEPT ![id] = Tail(@)]
                /\ UNCHANGED posted
                /\ chanCall' = [chanCall EXCEPT ![id] =
                       IF c.n = 1 THEN NoCall ELSE Continue(c, "release", c.n - 1, message)]
                /\ lastOp' = WriterOp("postBufferRelease", id,
                                      IF c.n = 1 THEN "void" ELSE "pending",
                                      <<"write", 0, TRUE>>, 0, 1)
    /\ UNCHANGED <<chan, invalidated, messages, obsCall>>
    /\ UNCHANGED invVars

\* one iteration of the release loop (lines 120-134)
postBufferReleaseWrite(id) ==
    /\ chanCall[id].pc = "release"
    /\ LET c == chanCall[id]
           message == ReleaseMessage(Head(pending[id]), c.arg[1])
           w == FmqWrite(mBufferStatusQueues[id], message)
       IN  IF ~w.ok
           THEN /\ chanCall' = [chanCall EXCEPT ![id] = NoCall]
                /\ lastOp' = WriterOp("postBufferRelease", id, "void", <<"write", 0, FALSE>>, 0, 1)
                /\ UNCHANGED <<mBufferStatusQueues, pending, posted>>
           ELSE /\ mBufferStatusQueues' = [mBufferStatusQueues EXCEPT ![id] = w.q]
                /\ pending' = [pending EXCEPT ![id] = Tail(@)]
                /\ posted' = [posted EXCEPT ![id] = Append(@, Head(pending[id]))]
                /\ chanCall' = [chanCall EXCEPT ![id] =
                       IF c.n = 1 THEN NoCall ELSE Continue(c, "release", c.n - 1, message)]
                /\ lastOp' = WriterOp("postBufferRelease", id,
                                      IF c.n = 1 THEN "void" ELSE "pending",
                                      <<"write", 0, TRUE>>, 0, 1)
    /\ UNCHANGED <<chan, invalidated, messages, obsCall>>
    /\ UNCHANGED invVars

\* postBufferInvalidateAck up to its availableToWrite() (lines 138-144)
postBufferInvalidateAckBegin(id, connectionId, invalidateId) ==
    /\ chan[id] # "none"
    /\ chanCall[id].pc = "idle"
    /\ IF isValid(id) /\ ~invalidated[id]
       THEN LET avail == availableToWrite(mBufferStatusQueues[id])
            IN  /\ chanCall' = [chanCall EXCEPT ![id] =
                       IF avail > 0
                       THEN [pc |-> "ack", n |-> 1, arg |-> <<connectionId, invalidateId>>,
                             pending0 |-> pending[id], posted0 |-> posted[id],
                             written |-> <<>>]
                       ELSE NoCall]
                /\ lastOp' = WriterOp("postBufferInvalidateAck", id,
                                      IF avail > 0 THEN "pending" ELSE "void",
                                      <<"avail", avail, TRUE>>, avail, 0)
       ELSE /\ UNCHANGED chanCall
            /\ lastOp' = Op("postBufferInvalidateAck", id, "void", <<"entry", 0, TRUE>>)
    /\ UNCHANGED <<mBufferStatusQueues, chan, pending, posted, invalidated, messages, obsCall>>
    /\ UNCHANGED invVars

\* the write of postBufferInvalidateAck (lines 145-157)
postBufferInvalidateAckWrite(id) ==
    /\ chanCall[id].pc = "ack"
    /\ LET c == chanCall[id]
           message == [BufferStatusMessage EXCEPT
                          !.status = "INVALIDATION_ACK", !.bufferId = c.arg[2],
                          !.connectionId = c.arg[1]]
           w == FmqWrite(mBufferStatusQueues[id], message)
       IN  /\ mBufferStatusQueues' = [mBufferStatusQueues EXCEPT ![id] = w.q]
           /\ invalidated' = [invalidated EXCEPT ![id] = IF w.ok THEN TRUE ELSE @]
           /\ lastOp' = WriterOp("postBufferInvalidateAck", id, "void", <<"write", 0, w.ok>>, 0, 1)
    /\ chanCall' = [chanCall EXCEPT ![id] = NoCall]
    /\ UNCHANGED <<chan, pending, posted, messages, obsCall>>
    /\ UNCHANGED invVars

\* the entry of postBufferStatusMessage with the capacity test one short
\* (avail >= numPending)
postBufferStatusMessageBegin_OneShort(id, transactionId, bufferId, status, connectionId, targetId) ==
    /\ chan[id] # "none"
    /\ chanCall[id].pc = "idle"
    /\ IF isValid(id)
       THEN LET avail == availableToWrite(mBufferStatusQueues[id])
                numPending == Len(pending[id])
            IN  /\ chanCall' = [chanCall EXCEPT ![id] =
                       IF avail >= numPending
                       THEN [pc |-> IF numPending > 0 THEN "flush" ELSE "status",
                             n |-> numPending,
                             arg |-> <<transactionId, bufferId, status, connectionId, targetId>>,
                             pending0 |-> pending[id], posted0 |-> posted[id],
                             written |-> <<>>]
                       ELSE NoCall]
                /\ lastOp' = WriterOp("postBufferStatusMessage", id,
                                      IF avail >= numPending THEN "pending" ELSE "false",
                                      <<"avail", avail, TRUE>>, avail, 0)
       ELSE /\ UNCHANGED chanCall
            /\ lastOp' = Op("postBufferStatusMessage", id, "false", <<"entry", 0, TRUE>>)
    /\ UNCHANGED <<mBufferStatusQueues, chan, pending, posted, invalidated, messages, obsCall>>
    /\ UNCHANGED invVars

\* postBufferStatusMessage up to its capacity test (lines 161-168)
postBufferStatusMessageBegin(id, transactionId, bufferId, status, connectionId, targetId) ==
    /\ chan[id] # "none"
    /\ chanCall[id].pc = "idle"
    /\ IF isValid(id)
       THEN LET avail == availableToWrite(mBufferStatusQueues[id])
                numPending == Len(pending[id])
            IN  /\ chanCall' = [chanCall EXCEPT ![id] =
                       IF avail >= numPending + 1
                       THEN [pc |-> IF numPending > 0 THEN "flush" ELSE "status",
                             n |-> numPending,
                             arg |-> <<transactionId, bufferId, status, connectionId, targetId>>,
                             pending0 |-> pending[id], posted0 |-> posted[id],
                             written |-> <<>>]
                       ELSE NoCall]
                /\ lastOp' = WriterOp("postBufferStatusMessage", id,
                                      IF avail >= numPending + 1 THEN "pending" ELSE "false",
                                      <<"avail", avail, TRUE>>, avail, 0)
       ELSE /\ UNCHANGED chanCall
            /\ lastOp' = Op("postBufferStatusMessage", id, "false", <<"entry", 0, TRUE>>)
    /\ UNCHANGED <<mBufferStatusQueues, chan, pending, posted, invalidated, messages, obsCall>>
    /\ UNCHANGED invVars

\* one iteration of the flush loop that takes the entry off pending and puts
\* it on posted before the write, whatever the write returns
postBufferStatusMessageFlush_MoveFirst(id) ==
    /\ chanCall[id].pc = "flush"
    /\ LET c == chanCall[id]
           message == ReleaseMessage(Head(pending[id]), c.arg[4])
           w == FmqWrite(mBufferStatusQueues[id], message)
       IN  /\ pending' = [pending EXCEPT ![id] = Tail(@)]
           /\ posted' = [posted EXCEPT ![id] = Append(@, Head(pending[id]))]
           /\ IF ~w.ok
              THEN /\ chanCall' = [chanCall EXCEPT ![id] = NoCall]
                   /\ lastOp' = WriterOp("postBufferStatusMessage", id, "false",
                                         <<"flush", 0, FALSE>>, 0, 1)
                   /\ UNCHANGED mBufferStatusQueues
              ELSE /\ mBufferStatusQueues' = [mBufferStatusQueues EXCEPT ![id] = w.q]
                   /\ chanCall' = [chanCall EXCEPT ![id] =
                          Continue(c, IF c.n = 1 THEN "status" ELSE "flush", c.n - 1, message)]
                   /\ lastOp' = WriterOp("postBufferStatusMessage", id, "pending",
                                         <<"flush", 0, TRUE>>, 0, 1)
    /\ UNCHANGED <<chan, invalidated, messages, obsCall>>
    /\ UNCHANGED invVars

\* one iteration of the flush loop (lines 170-184)
postBufferStatusMessageFlush(id) ==
    /\ chanCall[id].pc = "flush"
    /\ LET c == chanCall[id]
           message == ReleaseMessage(Head(pending[id]), c.arg[4])
           w == FmqWrite(mBufferStatusQueues[id], message)
       IN  IF ~w.ok
           THEN /\ chanCall' = [chanCall EXCEPT ![id] = NoCall]
                /\ lastOp' = WriterOp("postBufferStatusMessage", id, "false",
                                      <<"flush", 0, FALSE>>, 0, 1)
                /\ UNCHANGED <<mBufferStatusQueues, pending, posted>>
           ELSE /\ mBufferStatusQueues' = [mBufferStatusQueues EXCEPT ![id] = w.q]
                /\ pending' = [pending EXCEPT ![id] = Tail(@)]
                /\ posted' = [posted EXCEPT ![id] = Append(@, Head(pending[id]))]
                /\ chanCall' = [chanCall EXCEPT ![id] =
                       Continue(c, IF c.n = 1 THEN "status" ELSE "flush", c.n - 1, message)]
                /\ lastOp' = WriterOp("postBufferStatusMessage", id, "pending",
                                      <<"flush", 0, TRUE>>, 0, 1)
    /\ UNCHANGED <<chan, invalidated, messages, obsCall>>
    /\ UNCHANGED invVars

\* the record postBufferStatusMessage writes last (lines 186-191)
StatusMessage(arg) ==
    [BufferStatusMessage EXCEPT
        !.transactionId = arg[1], !.bufferId = arg[2], !.status = arg[3],
        !.connectionId = arg[4], !.targetConnectionId = arg[5], !.timestampUs = 0]

\* the write of the status message (lines 186-201)
postBufferStatusMessageWrite(id) ==
    /\ chanCall[id].pc = "status"
    /\ LET c == chanCall[id]
           w == FmqWrite(mBufferStatusQueues[id], StatusMessage(c.arg))
       IN  /\ mBufferStatusQueues' = [mBufferStatusQueues EXCEPT ![id] = w.q]
           /\ lastOp' = WriterOp("postBufferStatusMessage", id,
                                 IF w.ok THEN "true" ELSE "false", <<"status", 0, w.ok>>, 0, 1)
    /\ chanCall' = [chanCall EXCEPT ![id] = NoCall]
    /\ UNCHANGED <<chan, pending, posted, invalidated, messages, obsCall>>
    /\ UNCHANGED invVars

(* ---------------------------------------------------------------------- *)
(* getBufferStatusChanges step by step: one step per queue access.         *)
(* ---------------------------------------------------------------------- *)
\* the key the iterator stands on
Current == MinKey(obsCall.todo)

\* the call after the iterator has moved past the current key
NextConnection ==
    IF obsCall.todo \ {Current} = {}
    THEN NoDrain
    ELSE [pc |-> "avail", todo |-> obsCall.todo \ {Current}, avail |-> 0]

\* entry: the iterator is set to the first registered connection (lines 72-73)
getBufferStatusChangesBegin(in) ==
    /\ obsCall.pc = "idle"
    /\ messages' = in
    /\ obsCall' = IF DOMAIN mBufferStatusQueues = {}
                  THEN NoDrain
                  ELSE [pc |-> "avail", todo |-> DOMAIN mBufferStatusQueues, avail |-> 0]
    /\ lastOp' = Op("getBufferStatusChanges", 0,
                    IF DOMAIN mBufferStatusQueues = {} THEN "void" ELSE "pending",
                    <<"entry", 0, 0, TRUE>>)
    /\ UNCHANGED <<mBufferStatusQueues, chan, pending, posted, invalidated, chanCall>>
    /\ UNCHANGED invVars

\* availableToRead() of the current connection's queue (line 74)
getBufferStatusChangesAvail ==
    /\ obsCall.pc = "avail"
    /\ LET avail == availableToRead(mBufferStatusQueues[Current])
       IN  /\ obsCall' = IF avail > 0
                         THEN [obsCall EXCEPT !.pc = "read", !.avail = avail]
                         ELSE NextConnection
           /\ lastOp' = Op("getBufferStatusChanges", 0,
                           IF obsCall'.pc = "idle" THEN "void" ELSE "pending",
                           <<"avail", Current, avail, TRUE>>)
    /\ UNCHANGED <<mBufferStatusQueues, chan, pending, posted, invalidated, messages, chanCall>>
    /\ UNCHANGED invVars

\* one iteration of the read loop that moves on to the next connection when
\* a read fails
getBufferStatusChangesRead_SkipOnFailure ==
    /\ obsCall.pc = "read"
    /\ LET r == FmqRead(mBufferStatusQueues[Current])
       IN  IF ~r.ok
           THEN /\ obsCall' = NextConnection
                /\ lastOp' = Op("getBufferStatusChanges", 0,
                                IF obsCall'.pc = "idle" THEN "void" ELSE "pending",
                                <<"read", Current, 0, FALSE>>)
                /\ UNCHANGED <<mBufferStatusQueues, messages>>
           ELSE /\ mBufferStatusQueues' = [mBufferStatusQueues EXCEPT ![Current] = r.q]
                /\ messages' = Append(messages, [r.m EXCEPT !.connectionId = Current])
                /\ obsCall' = IF obsCall.avail = 1
                              THEN NextConnection
                              ELSE [obsCall EXCEPT !.avail = @ - 1]
                /\ lastOp' = Op("getBufferStatusChanges", 0,
                                IF obsCall'.pc = "idle" THEN "void" ELSE "pending",
                                <<"read", Current, 0, TRUE>>)
    /\ UNCHANGED <<chan, pending, posted, invalidated, chanCall>>
    /\ UNCHANGED invVars

\* one iteration of the read loop that goes on while the queue has records,
\* whatever availableToRead() reported
getBufferStatusChangesRead_UntilEmpty ==
    /\ obsCall.pc = "read"
    /\ LET r == FmqRead(mBufferStatusQueues[Current])
       IN  IF ~r.ok
           THEN /\ obsCall' = NoDrain
                /\ lastOp' = Op("getBufferStatusChanges", 0, "void", <<"read", Current, 0, FALSE>>)
                /\ UNCHANGED <<mBufferStatusQueues, messages>>
           ELSE /\ mBufferStatusQueues' = [mBufferStatusQueues EXCEPT ![Current] = r.q]
                /\ messages' = Append(messages, [r.m EXCEPT !.connectionId = Current])
                /\ obsCall' = IF availableToRead(r.q) = 0
                              THEN NextConnection
                              ELSE [obsCall EXCEPT !.avail = availableToRead(r.q)]
                /\ lastOp' = Op("getBufferStatusChanges", 0,
                                IF obsCall'.pc = "idle" THEN "void" ELSE "pending",
                                <<"read", Current, 0, TRUE>>)
    /\ UNCHANGED <<chan, pending, posted, invalidated, chanCall>>
    /\ UNCHANGED invVars

\* one iteration of the read loop (lines 75-85)
getBufferStatusChangesRead ==
    /\ obsCall.pc = "read"
    /\ LET r == FmqRead(mBufferStatusQueues[Current])
       IN  IF ~r.ok
           THEN /\ obsCall' = NoDrain
                /\ lastOp' = Op("getBufferStatusChanges", 0, "void", <<"read", Current, 0, FALSE>>)
                /\ UNCHANGED <<mBufferStatusQueues, messages>>
           ELSE /\ mBufferStatusQueues' = [mBufferStatusQueues EXCEPT ![Current] = r.q]
                /\ messages' = Append(messages, [r.m EXCEPT !.connectionId = Current])
                /\ obsCall' = IF obsCall.avail = 1
                              THEN NextConnection
                              ELSE [obsCall EXCEPT !.avail = @ - 1]
                /\ lastOp' = Op("getBufferStatusChanges", 0,
                                IF obsCall'.pc = "idle" THEN "void" ELSE "pending",
                                <<"read", Current, 0, TRUE>>)
    /\ UNCHANGED <<chan, pending, posted, invalidated, chanCall>>
    /\ UNCHANGED invVars

(* ---------------------------------------------------------------------- *)
(* A spurious client: another holder of a status queue's descriptor that   *)
(* writes to it or reads from it outside the one-writer one-reader rule.   *)
(* ---------------------------------------------------------------------- *)
SpuriousRecord == [BufferStatusMessage EXCEPT !.status = "USED", !.transactionId = 99]

SpuriousWrite(id) ==
    /\ id \in DOMAIN mBufferStatusQueues
    /\ availableToWrite(mBufferStatusQueues[id]) > 0
    /\ mBufferStatusQueues' = [mBufferStatusQueues EXCEPT ![id] = Append(@, SpuriousRecord)]
    /\ lastOp' = Op("SpuriousWrite", id, "void", <<>>)
    /\ UNCHANGED <<chan, pending, posted, invalidated, messages, chanCall, obsCall>>
    /\ UNCHANGED invVars

SpuriousRead(id) ==
    /\ id \in DOMAIN mBufferStatusQueues
    /\ availableToRead(mBufferStatusQueues[id]) > 0
    /\ mBufferStatusQueues' = [mBufferStatusQueues EXCEPT ![id] = Tail(@)]
    /\ lastOp' = Op("SpuriousRead", id, "void", <<>>)
    /\ UNCHANGED <<chan, pending, posted, invalidated, messages, chanCall, obsCall>>
    /\ UNCHANGED invVars

BufferInvalidationMessage == [messageId |-> 0, fromBufferId |-> 0, toBufferId |-> 0]

(* ---------------------------------------------------------------------- *)
(* The unsynchronized broadcast queue: the writer never waits, and every   *)
(* reader has a read position of its own, starting at the oldest record.   *)
(* ---------------------------------------------------------------------- *)
\* availableToRead() of the reader whose read position is readPtr
invAvailableToRead(readPtr) == mBufferInvalidationQueue.writePtr - readPtr

\* read(data, n) of the reader at readPtr: when the writer has lapped the
\* reader the read fails and the reader jumps to the write position
InvRead(readPtr, n) ==
    LET Q == mBufferInvalidationQueue
    IN  IF Q.writePtr - readPtr > kNumElementsInQueue
        THEN [ok |-> FALSE, readPtr |-> Q.writePtr, data |-> <<>>, overflow |-> TRUE]
        ELSE IF Q.writePtr - readPtr < n
        THEN [ok |-> FALSE, readPtr |-> readPtr, data |-> <<>>, overflow |-> FALSE]
        ELSE [ok |-> TRUE, readPtr |-> readPtr + n,
              data |-> [i \in 1..n |-> Q.ring[(readPtr + i - 1) % kNumElementsInQueue]],
              overflow |-> FALSE]

\* write(&m): always succeeds, overwriting the oldest slot
InvWrite(Q, m) ==
    [ring |-> [Q.ring EXCEPT ![Q.writePtr % kNumElementsInQueue] = m],
     writePtr |-> Q.writePtr + 1]

(* ---------------------------------------------------------------------- *)
(* BufferInvalidationChannel                                               *)
(* ---------------------------------------------------------------------- *)
postInvalidation(msgId, fromId, toId) ==
    /\ mBufferInvalidationQueue.writePtr < MaxPosts
    /\ LET message == [BufferInvalidationMessage EXCEPT
                          !.messageId = msgId, !.fromBufferId = fromId, !.toBufferId = toId]
       IN  /\ mBufferInvalidationQueue' = InvWrite(mBufferInvalidationQueue, message)
           /\ invLog' = Append(invLog, message)
    /\ lastOp' = WriterOp("postInvalidation", 0, "void", <<msgId, fromId, toId>>, 0, 1)
    /\ UNCHANGED <<listener, invMessages, hist>>
    /\ UNCHANGED statusVars

(* ---------------------------------------------------------------------- *)
(* BufferInvalidationListener                                              *)
(* ---------------------------------------------------------------------- *)
\* the read position after the constructor's "drain previous messages"
DrainPrevious ==
    LET avail == Min(invAvailableToRead(0), kNumElementsInQueue)
    IN  IF avail > 0 THEN InvRead(0, avail).readPtr ELSE 0

\* the constructor without its "drain previous messages" block
BufferInvalidationListener_NoDrain(l, attachOk) ==
    /\ listener[l].state = "none"
    /\ IF ~attachOk
       THEN listener' = [listener EXCEPT ![l].state = "invalid"]
       ELSE listener' = [listener EXCEPT ![l].state = "valid", ![l].readPtr = 0]
    /\ hist' = [hist EXCEPT ![l] = [attachedAt |-> mBufferInvalidationQueue.writePtr,
                                    delivered |-> <<>>, overflowed |-> FALSE,
                                    wAtCall |-> mBufferInvalidationQueue.writePtr]]
    /\ lastOp' = Op("BufferInvalidationListener", l, listener'[l].state, <<>>)
    /\ UNCHANGED <<mBufferInvalidationQueue, invMessages, invLog>>
    /\ UNCHANGED statusVars

\* BufferInvalidationListener(fmqDesc); attachOk is queue->isValid()
BufferInvalidationListener(l, attachOk) ==
    /\ listener[l].state = "none"
    /\ IF ~attachOk
       THEN listener' = [listener EXCEPT ![l].state = "invalid"]
       ELSE listener' = [listener EXCEPT ![l].state = "valid", ![l].readPtr = DrainPrevious]
    /\ hist' = [hist EXCEPT ![l] = [attachedAt |-> mBufferInvalidationQueue.writePtr,
                                    delivered |-> <<>>, overflowed |-> FALSE,
                                    wAtCall |-> mBufferInvalidationQueue.writePtr]]
    /\ lastOp' = Op("BufferInvalidationListener", l, listener'[l].state, <<>>)
    /\ UNCHANGED <<mBufferInvalidationQueue, invMessages, invLog>>
    /\ UNCHANGED statusVars

\* the availability computed one short: min(availableToRead(), kNumElementsInQueue - 1)
InvAvail_OneShort(l) == Min(invAvailableToRead(listener[l].readPtr), kNumElementsInQueue - 1)

\* line 228: avail = min(availableToRead(), kNumElementsInQueue)
InvAvail(l) == Min(invAvailableToRead(listener[l].readPtr), kNumElementsInQueue)

\* getInvalidations(messages) is entered with the vector in and makes its
\* first availability check (loop pass i = 0).  On a listener whose
\* construction failed mBufferInvalidationQueue is null and is dereferenced:
\* the call may fault, or return having appended nothing.
getInvalidations(l, in, undefined) ==
    /\ listener[l].state \in {"valid", "invalid"}
    /\ listener[l].pc = "idle"
    /\ IF listener[l].state = "valid"
       THEN /\ invMessages' = [invMessages EXCEPT ![l] = in]
            /\ IF InvAvail(l) > 0
               THEN /\ listener' = [listener EXCEPT ![l].pc = "read0", ![l].avail = InvAvail(l)]
                    /\ lastOp' = Op("getInvalidations:avail", l, "running", <<0>>)
               ELSE /\ UNCHANGED listener
                    /\ lastOp' = Op("getInvalidations", l, "void", <<0>>)
            /\ hist' = [hist EXCEPT ![l].wAtCall = mBufferInvalidationQueue.writePtr]
       ELSE CASE undefined = "fault" ->
                   /\ listener' = [listener EXCEPT ![l].state = "crashed"]
                   /\ invMessages' = [invMessages EXCEPT ![l] = in]
                   /\ lastOp' = Op("getInvalidations", l, "SIGSEGV", <<0>>)
                   /\ UNCHANGED hist
              [] undefined = "return" ->
                   /\ UNCHANGED listener
                   /\ invMessages' = [invMessages EXCEPT ![l] = in]
                   /\ lastOp' = Op("getInvalidations", l, "void", <<0>>)
                   /\ UNCHANGED hist
    /\ UNCHANGED <<mBufferInvalidationQueue, invLog>>
    /\ UNCHANGED statusVars

\* the read step over a queue whose read position is shared by all
\* listeners (the synchronized flavour): one listener's read moves the others
getInvalidationsRead_SharedCursor(l) ==
    /\ listener[l].state = "valid"
    /\ listener[l].pc \in {"read0", "read1"}
    /\ LET r == InvRead(listener[l].readPtr, listener[l].avail)
           moved == [o \in Listeners |->
                       IF o # l /\ listener[o].state = "valid"
                       THEN [listener[o] EXCEPT !.readPtr = r.readPtr]
                       ELSE listener[o]]
       IN  IF r.ok
           THEN /\ invMessages' = [invMessages EXCEPT ![l] = @ \o r.data]
                /\ hist' = [hist EXCEPT ![l].delivered = @ \o r.data]
                /\ listener' = [moved EXCEPT ![l].readPtr = r.readPtr,
                                             ![l].pc = "idle", ![l].avail = 0]
                /\ lastOp' = Op("getInvalidations", l, "void", <<Len(r.data)>>)
           ELSE /\ UNCHANGED invMessages
                /\ hist' = [hist EXCEPT ![l].overflowed = @ \/ r.overflow]
                /\ IF listener[l].pc = "read0"
                   THEN /\ listener' = [listener EXCEPT ![l].readPtr = r.readPtr,
                                                        ![l].pc = "avail1", ![l].avail = 0]
                        /\ lastOp' = Op("getInvalidations:read", l, "running", <<0>>)
                   ELSE /\ listener' = [listener EXCEPT ![l].readPtr = r.readPtr,
                                                        ![l].pc = "idle", ![l].avail = 0]
                        /\ lastOp' = Op("getInvalidations", l, "void", <<0>>)
    /\ UNCHANGED <<mBufferInvalidationQueue, invLog>>
    /\ UNCHANGED statusVars

\* lines 231-238: read(temp.data(), avail) and, if it succeeds, push_back of
\* every record and break; if it fails in pass 0 the loop goes round again
getInvalidationsRead(l) ==
    /\ listener[l].state = "valid"
    /\ listener[l].pc \in {"read0", "read1"}
    /\ LET r == InvRead(listener[l].readPtr, listener[l].avail)
       IN  IF r.ok
           THEN /\ invMessages' = [invMessages EXCEPT ![l] = @ \o r.data]
                /\ hist' = [hist EXCEPT ![l].delivered = @ \o r.data]
                /\ listener' = [listener EXCEPT ![l].readPtr = r.readPtr,
                                                ![l].pc = "idle", ![l].avail = 0]
                /\ lastOp' = Op("getInvalidations", l, "void", <<Len(r.data)>>)
           ELSE /\ UNCHANGED invMessages
                /\ hist' = [hist EXCEPT ![l].overflowed = @ \/ r.overflow]
                /\ IF listener[l].pc = "read0"
                   THEN /\ listener' = [listener EXCEPT ![l].readPtr = r.readPtr,
                                                        ![l].pc = "avail1", ![l].avail = 0]
                        /\ lastOp' = Op("getInvalidations:read", l, "running", <<0>>)
                   ELSE /\ listener' = [listener EXCEPT ![l].readPtr = r.readPtr,
                                                        ![l].pc = "idle", ![l].avail = 0]
                        /\ lastOp' = Op("getInvalidations", l, "void", <<0>>)
    /\ UNCHANGED <<mBufferInvalidationQueue, invLog>>
    /\ UNCHANGED statusVars

\* the availability check of loop pass i = 1
getInvalidationsRetry(l) ==
    /\ listener[l].state = "valid"
    /\ listener[l].pc = "avail1"
    /\ IF InvAvail(l) > 0
       THEN /\ listener' = [listener EXCEPT ![l].pc = "read1", ![l].avail = InvAvail(l)]
            /\ lastOp' = Op("getInvalidations:avail", l, "running", <<0>>)
       ELSE /\ listener' = [listener EXCEPT ![l].pc = "idle"]
            /\ lastOp' = Op("getInvalidations", l, "void", <<0>>)
    /\ UNCHANGED <<mBufferInvalidationQueue, invMessages, invLog, hist>>
    /\ UNCHANGED statusVars

InitInvalidation ==
    /\ mBufferInvalidationQueue =
          [ring |-> [i \in 0..(kNumElementsInQueue - 1) |-> BufferInvalidationMessage],
           writePtr |-> 0]
    /\ listener = [l \in Listeners |-> [state |-> "none", readPtr |-> 0, pc |-> "idle", avail |-> 0]]
    /\ invMessages = [l \in Listeners |-> <<>>]
    /\ invLog = <<>>
    /\ hist = [l \in Listeners |-> [attachedAt |-> 0, delivered |-> <<>>, overflowed |-> FALSE, wAtCall |-> 0]]

Init ==
    /\ InitInvalidation
    /\ mBufferStatusQueues = <<>>
    /\ chan = [c \in ConnectionIds |-> "none"]
    /\ pending = [c \in ConnectionIds |-> <<>>]
    /\ posted = [c \in ConnectionIds |-> <<>>]
    /\ invalidated = [c \in ConnectionIds |-> FALSE]
    /\ messages = <<>>
    /\ chanCall = [c \in ConnectionIds |-> NoCall]
    /\ obsCall = NoDrain
    /\ lastOp = Op("init", 0, "void", <<>>)

\* Observer with two connections, each channel posting status messages
\* (queue construction and attachment succeed; their failures are in
\* NextChannel).  Connection 1 labels its records with either connection's
\* id, connection 2 with the id of connection 1: labels the observer has to
\* overwrite.
Next ==
    \/ \E id \in ConnectionIds : open(id, TRUE)
    \/ \E id \in ConnectionIds : close(id)
    \/ \E fresh \in BOOLEAN : getBufferStatusChanges(IF fresh THEN <<>> ELSE messages, TRUE)
    \/ \E id \in ConnectionIds : BufferStatusChannel(id, TRUE)
    \/ \E id \in ConnectionIds : DestroyChannel(id)
    \/ \E a \in StatusArgs : postBufferStatusMessage(1, a[1], a[2], a[3], a[4], a[5])
    \/ postBufferStatusMessage(2, OtherLabel(2)[1], OtherLabel(2)[2], OtherLabel(2)[3],
                               OtherLabel(2)[4], OtherLabel(2)[5])

Spec == Init /\ [][Next]_vars

\* One connection, its channel doing releases, acks and status posts
NextChannel ==
    \/ \E queueOk \in BOOLEAN : open(1, queueOk)
    \/ close(1)
    \/ getBufferStatusChanges(<<>>, FALSE)
    \/ \E attachOk \in BOOLEAN : BufferStatusChannel(1, attachOk)
    \/ DestroyChannel(1)
    \/ postBufferRelease(1, 1)
    \/ \E invalidateId \in InvalidateIds : postBufferInvalidateAck(1, 1, invalidateId)
    \/ \E a \in StatusArgs : postBufferStatusMessage(1, a[1], a[2], a[3], a[4], a[5])
    \/ \E bufferId \in BufferIds : ReleaseBuffer(1, bufferId)
    \/ ClearPosted(1)
    \/ NewInvalidation(1)

SpecChannel == Init /\ [][NextChannel]_vars

\* The broadcast channel and its listeners
NextInvalidation ==
    \/ \E a \in InvalidationArgs : postInvalidation(a[1], a[2], a[3])
    \/ \E l \in Listeners, attachOk \in BOOLEAN : BufferInvalidationListener(l, attachOk)
    \/ \E l \in Listeners, fresh \in BOOLEAN, undefined \in {"fault", "return"} :
           getInvalidations(l, IF fresh THEN <<>> ELSE invMessages[l], undefined)
    \/ \E l \in Listeners : getInvalidationsRead(l)
    \/ \E l \in Listeners : getInvalidationsRetry(l)

SpecInvalidation == Init /\ [][NextInvalidation]_vars

\* Every operation that writes to a queue: one channel and the broadcast channel
NextWriters ==
    \/ open(1, TRUE)
    \/ BufferStatusChannel(1, TRUE)
    \/ getBufferStatusChanges(<<>>, FALSE)
    \/ postBufferRelease(1, 1)
    \/ \E invalidateId \in InvalidateIds : postBufferInvalidateAck(1, 1, invalidateId)
    \/ \E a \in StatusArgs : postBufferStatusMessage(1, a[1], a[2], a[3], a[4], a[5])
    \/ \E bufferId \in BufferIds : ReleaseBuffer(1, bufferId)
    \/ NewInvalidation(1)
    \/ postInvalidation(1, 10, 12)

SpecWriters == Init /\ [][NextWriters]_vars

\* One channel and the observer on one status queue, interleaved at every
\* queue access
NextConcurrent ==
    \/ open(1, TRUE)
    \/ BufferStatusChannel(1, TRUE)
    \/ \E bufferId \in BufferIds : ReleaseBuffer(1, bufferId)
    \/ postBufferReleaseBegin(1, 1)
    \/ postBufferReleaseWrite(1)
    \/ \E invalidateId \in InvalidateIds : postBufferInvalidateAckBegin(1, 1, invalidateId)
    \/ postBufferInvalidateAckWrite(1)
    \/ postBufferStatusMessageBegin(1, 7, 12, "USED", 1, 2)
    \/ postBufferStatusMessageFlush(1)
    \/ postBufferStatusMessageWrite(1)
    \/ getBufferStatusChangesBegin(<<>>)
    \/ getBufferStatusChangesAvail
    \/ getBufferStatusChangesRead

SpecConcurrent == Init /\ [][NextConcurrent]_vars

\* One channel interleaved with a spurious client that writes to its queue
NextSpurious ==
    \/ open(1, TRUE)
    \/ BufferStatusChannel(1, TRUE)
    \/ \E bufferId \in BufferIds : ReleaseBuffer(1, bufferId)
    \/ postBufferReleaseBegin(1, 1)
    \/ postBufferReleaseWrite(1)
    \/ postBufferStatusMessageBegin(1, 7, 12, "USED", 1, 2)
    \/ postBufferStatusMessageFlush(1)
    \/ postBufferStatusMessageWrite(1)
    \/ getBufferStatusChanges(<<>>, FALSE)
    \/ SpuriousWrite(1)

SpecSpurious == Init /\ [][NextSpurious]_vars

\* The observer draining two connections step by step while their channels
\* keep posting
NextDrain ==
    \/ \E id \in ConnectionIds : open(id, TRUE)
    \/ \E id \in ConnectionIds : BufferStatusChannel(id, TRUE)
    \/ \E a \in StatusArgs : postBufferStatusMessageBegin(1, a[1], a[2], a[3], a[4], a[5])
    \/ postBufferStatusMessageBegin(2, OtherLabel(2)[1], OtherLabel(2)[2], OtherLabel(2)[3],
                                    OtherLabel(2)[4], OtherLabel(2)[5])
    \/ \E id \in ConnectionIds : postBufferStatusMessageWrite(id)
    \/ getBufferStatusChangesBegin(<<>>)
    \/ getBufferStatusChangesAvail
    \/ getBufferStatusChangesRead

SpecDrain == Init /\ [][NextDrain]_vars

\* a thread inside getBufferStatusChanges keeps running until the call
\* returns (each of its steps changes obsCall)
SpecDrainFair ==
    /\ SpecDrain
    /\ WF_obsCall(getBufferStatusChangesAvail)
    /\ WF_obsCall(getBufferStatusChangesRead)

\* The same with a spurious client that reads from the queues
NextDrainSpurious ==
    \/ NextDrain
    \/ \E id \in ConnectionIds : SpuriousRead(id)

SpecDrainSpurious == Init /\ [][NextDrainSpurious]_vars

\* The two pure helpers, on every input of the id space
NextArith ==
    \/ \E curMsgId \in IdSpace, prevMsgId \in IdSpace : isMessageLaterCall(curMsgId, prevMsgId)
    \/ \E from \in IdSpace, to \in IdSpace, bufferId \in IdSpace :
           isBufferInRangeCall(from, to, bufferId)

SpecArith == Init /\ [][NextArith]_vars

(* ====================================================================== *)
(* Properties                                                              *)
(* ====================================================================== *)

\* C1: open(id) on a registered id and close(id) on an unregistered id both
\* return CRITICAL_ERROR and leave the registry (its ids and the contents of
\* their queues) unchanged.
C1_OpenCloseRejected ==
    [][ /\ (lastOp'.op = "open" /\ lastOp'.id \in DOMAIN mBufferStatusQueues)
            => (lastOp'.ret = "CRITICAL_ERROR" /\ mBufferStatusQueues' = mBufferStatusQueues)
        /\ (lastOp'.op = "close" /\ lastOp'.id \notin DOMAIN mBufferStatusQueues)
            => (lastOp'.ret = "CRITICAL_ERROR" /\ mBufferStatusQueues' = mBufferStatusQueues)
      ]_vars

\* a duplicate open was rejected while the id's queue held records
C1_Witness ==
    /\ lastOp.op = "open"
    /\ lastOp.ret = "CRITICAL_ERROR"
    /\ lastOp.id \in DOMAIN mBufferStatusQueues
    /\ Len(mBufferStatusQueues[lastOp.id]) > 0

\* the records of connection c as the observer must report them
TaggedQueue(c) ==
    [i \in 1..Len(mBufferStatusQueues[c]) |->
        [mBufferStatusQueues[c][i] EXCEPT !.connectionId = c]]

OfConnection(seq, c) == SelectSeq(seq, LAMBDA m : m.connectionId = c)

\* C2: a getBufferStatusChanges call keeps what the vector held, appends
\* for every registered connection exactly the records written to its queue,
\* in write order and tagged with that connection's id, and leaves every
\* queue empty (so a second drain appends nothing).
C2_DrainExactlyWritten ==
    [][ lastOp'.op = "getBufferStatusChanges" =>
          LET n == lastOp'.arg[1]
              appended == SubSeq(messages', n + 1, Len(messages'))
          IN  /\ SubSeq(messages', 1, n) = SubSeq(messages, 1, n)
              /\ Len(appended) = TotalAvailable
              /\ \A c \in DOMAIN mBufferStatusQueues :
                     OfConnection(appended, c) = TaggedQueue(c)
              /\ DOMAIN mBufferStatusQueues' = DOMAIN mBufferStatusQueues
              /\ \A c \in DOMAIN mBufferStatusQueues' : mBufferStatusQueues'[c] = <<>>
      ]_vars

\* a drain into a non-empty vector delivered a full queue of connection 1,
\* one record of which the writer had labelled with connection 2's id
C2_Witness ==
    /\ lastOp.op = "getBufferStatusChanges"
    /\ lastOp.arg[1] > 0
    /\ Len(OfConnection(SubSeq(messages, lastOp.arg[1] + 1, Len(messages)), 1))
          = kNumElementsInQueue
    /\ \E i \in lastOp.arg[1] + 1 .. Len(messages) :
          messages[i].connectionId = 1 /\ messages[i].transactionId = 8

\* the NOT_USED record postBufferRelease / postBufferStatusMessage write for a buffer
IsRelease(m, bufferId, connectionId) ==
    m.status = "NOT_USED" /\ m.bufferId = bufferId /\ m.connectionId = connectionId

\* q2 is q1 followed by release records for the buffers of ids, in order
AppendsReleases(q1, q2, ids, connectionId) ==
    /\ Len(q2) = Len(q1) + Len(ids)
    /\ SubSeq(q2, 1, Len(q1)) = q1
    /\ \A i \in 1..Len(ids) : IsRelease(q2[Len(q1) + i], ids[i], connectionId)

\* C3: postBufferStatusMessage on a valid channel with P pending entries and
\* availableToWrite() < P + 1 returns false, writes nothing and leaves
\* pending and posted unchanged.
C3_StatusMessageNoCapacity ==
    [][ \A id \in ConnectionIds :
          ( /\ lastOp'.op = "postBufferStatusMessage" /\ lastOp'.id = id
            /\ chan[id] = "valid"
            /\ availableToWrite(mBufferStatusQueues[id]) < Len(pending[id]) + 1 )
          => ( /\ lastOp'.ret = FALSE
               /\ mBufferStatusQueues' = mBufferStatusQueues
               /\ pending' = pending
               /\ posted' = posted )
      ]_vars

\* the boundary: a refused call with P >= 1 pending and exactly P free slots
C3_Witness ==
    /\ lastOp.op = "postBufferStatusMessage"
    /\ lastOp.ret = FALSE
    /\ chan[lastOp.id] = "valid"
    /\ Len(pending[lastOp.id]) >= 1
    /\ availableToWrite(mBufferStatusQueues[lastOp.id]) = Len(pending[lastOp.id])

C5_ReleaseMovesMin ==
    [][ \A id \in ConnectionIds :
          (lastOp'.op = "postBufferRelease" /\ lastOp'.id = id)
          => IF chan[id] = "valid" /\ Len(pending[id]) > 0
             THEN LET P == Len(pending[id])
                      n == Min(availableToWrite(mBufferStatusQueues[id]), P)
                  IN  /\ AppendsReleases(mBufferStatusQueues[id], mBufferStatusQueues'[id],
                                         SubSeq(pending[id], 1, n), lastOp'.arg[1])
                      /\ posted'[id] = posted[id] \o SubSeq(pending[id], 1, n)
                      /\ pending'[id] = SubSeq(pending[id], n + 1, P)
             ELSE /\ mBufferStatusQueues' = mBufferStatusQueues
                  /\ pending' = pending
                  /\ posted' = posted
      ]_vars

\* a call with two pending entries and one free slot moved exactly the first
C5_Witness ==
    /\ lastOp.op = "postBufferRelease"
    /\ chan[lastOp.id] = "valid"
    /\ lastOp.arg[2] = 2
    /\ Len(pending[lastOp.id]) = 1
    /\ Len(posted[lastOp.id]) = lastOp.arg[3] + 1
    /\ pending[lastOp.id][1] # posted[lastOp.id][Len(posted[lastOp.id])]
    /\ availableToWrite(mBufferStatusQueues[lastOp.id]) = 0

\* C6: postBufferInvalidateAck writes exactly one INVALIDATION_ACK record
\* (bufferId = invalidateId) and sets the flag iff the channel is valid, the
\* flag was false and a slot is free; otherwise it writes nothing and leaves
\* the flag as it was (so a set flag is never cleared and never re-acked).
C6_InvalidateAckOnce ==
    [][ \A id \in ConnectionIds :
          (lastOp'.op = "postBufferInvalidateAck" /\ lastOp'.id = id)
          => IF /\ chan[id] = "valid"
                /\ ~invalidated[id]
                /\ availableToWrite(mBufferStatusQueues[id]) >= 1
             THEN LET q  == mBufferStatusQueues[id]
                      q2 == mBufferStatusQueues'[id]
                  IN  /\ Len(q2) = Len(q) + 1
                      /\ SubSeq(q2, 1, Len(q)) = q
                      /\ q2[Len(q2)].status = "INVALIDATION_ACK"
                      /\ q2[Len(q2)].bufferId = lastOp'.arg[2]
                      /\ invalidated'[id] = TRUE
             ELSE /\ mBufferStatusQueues' = mBufferStatusQueues
                  /\ invalidated' = invalidated
      ]_vars

\* a call found the flag false and no free slot: flag still false, to retry
C6_Witness ==
    /\ lastOp.op = "postBufferInvalidateAck"
    /\ chan[lastOp.id] = "valid"
    /\ lastOp.arg[3] = FALSE
    /\ invalidated[lastOp.id] = FALSE
    /\ availableToWrite(mBufferStatusQueues[lastOp.id]) = 0
    /\ \E i \in 1..Len(mBufferStatusQueues[lastOp.id]) :
          mBufferStatusQueues[lastOp.id][i].status = "INVALIDATION_ACK"

\* a step of listener l inside getInvalidations, and one that returns from it
InGetInvalidations(op) ==
    op \in {"getInvalidations", "getInvalidations:avail", "getInvalidations:read"}

\* the records posted after position from up to position to
Posted(from, to) == SubSeq(invLog, from + 1, to)

\* C7: a listener constructed against a queue holding K backlog records gets
\* nothing from a getInvalidations call made before any further post: the
\* call returns at once, appends no record, and nothing posted before the
\* attach has been delivered.
C7_NoBacklogAfterAttach ==
    [][ \A l \in Listeners :
          ( /\ InGetInvalidations(lastOp'.op) /\ lastOp'.id = l
            /\ listener[l].state = "valid"
            /\ mBufferInvalidationQueue.writePtr = hist[l].attachedAt )
          => ( /\ lastOp'.op = "getInvalidations" /\ lastOp'.ret = "void"
               /\ lastOp'.arg[1] = 0
               /\ invMessages'[l] \in {<<>>, invMessages[l]}
               /\ hist'[l].delivered = <<>> )
      ]_vars

\* a call returned on a listener attached to a queue with a full backlog
C7_Witness ==
    /\ lastOp.op = "getInvalidations"
    /\ listener[lastOp.id].state = "valid"
    /\ hist[lastOp.id].attachedAt = kNumElementsInQueue
    /\ mBufferInvalidationQueue.writePtr = kNumElementsInQueue
    /\ invMessages[lastOp.id] = <<>>

\* C8: a step of one listener (its construction or its getInvalidations)
\* changes neither the queue nor the other listener's read position, vector
\* or deliveries; and two listeners that have both drained up to the write
\* position hold the same record for every post made after both attached.
C8_ListenersIndependent ==
    /\ [][ \A l \in Listeners :
             ( /\ lastOp'.id = l
               /\ (InGetInvalidations(lastOp'.op) \/ lastOp'.op = "BufferInvalidationListener") )
             => ( /\ mBufferInvalidationQueue' = mBufferInvalidationQueue
                  /\ \A o \in Listeners \ {l} :
                        /\ listener'[o] = listener[o]
                        /\ invMessages'[o] = invMessages[o]
                        /\ hist'[o] = hist[o] )
         ]_vars
    /\ [] ( \A l1 \in Listeners, l2 \in Listeners :
              ( /\ l1 # l2
                /\ listener[l1].state = "valid" /\ listener[l2].state = "valid"
                /\ ~hist[l1].overflowed /\ ~hist[l2].overflowed
                /\ listener[l1].readPtr = mBufferInvalidationQueue.writePtr
                /\ listener[l2].readPtr = mBufferInvalidationQueue.writePtr )
              => \A k \in 1..Len(invLog) :
                    (k > hist[l1].attachedAt /\ k > hist[l2].attachedAt)
                    => ( /\ k - hist[l1].attachedAt <= Len(hist[l1].delivered)
                         /\ k - hist[l2].attachedAt <= Len(hist[l2].delivered)
                         /\ hist[l1].delivered[k - hist[l1].attachedAt] = invLog[k]
                         /\ hist[l2].delivered[k - hist[l2].attachedAt] = invLog[k] ) )

\* both listeners were attached (to a queue with backlog), a record was
\* posted, and both have drained it
C8_Witness ==
    /\ lastOp.op = "getInvalidations"
    /\ \A l \in Listeners :
          /\ listener[l].state = "valid"
          /\ hist[l].attachedAt >= 1
          /\ hist[l].attachedAt < mBufferInvalidationQueue.writePtr
          /\ listener[l].readPtr = mBufferInvalidationQueue.writePtr
          /\ hist[l].delivered # <<>>
          /\ hist[l].delivered[Len(hist[l].delivered)] = invLog[Len(invLog)]

\* C10: on a valid listener that the writer has not lapped, a
\* getInvalidations call appends exactly the records between its read
\* position and the position it moves to, in post order, and when it returns
\* it has consumed everything that was available when it was entered; so the
\* records delivered since the attach are exactly the records posted since
\* the attach up to the read position, each once and in post order.
C10_DrainsAllExactlyOnce ==
    /\ [][ \A l \in Listeners :
             ( /\ InGetInvalidations(lastOp'.op) /\ lastOp'.id = l
               /\ listener[l].state = "valid"
               /\ ~hist'[l].overflowed )
             => ( /\ lastOp'.arg[1] = listener'[l].readPtr - listener[l].readPtr
                  /\ hist'[l].delivered = hist[l].delivered \o
                        Posted(listener[l].readPtr, listener'[l].readPtr)
                  /\ lastOp'.arg[1] > 0 =>
                        invMessages'[l] = invMessages[l] \o
                           Posted(listener[l].readPtr, listener'[l].readPtr)
                  /\ lastOp'.op = "getInvalidations" =>
                        listener'[l].readPtr >= hist'[l].wAtCall )
         ]_vars
    /\ [] ( \A l \in Listeners :
              (listener[l].state = "valid" /\ ~hist[l].overflowed)
              => ( /\ hist[l].attachedAt <= listener[l].readPtr
                   /\ listener[l].readPtr <= mBufferInvalidationQueue.writePtr
                   /\ hist[l].delivered = Posted(hist[l].attachedAt, listener[l].readPtr) ) )

\* a call drained a full queue's worth of records posted after the attach,
\* following an earlier delivery to the same listener
C10_Witness ==
    /\ lastOp.op = "getInvalidations"
    /\ lastOp.arg[1] = kNumElementsInQueue
    /\ listener[lastOp.id].state = "valid"
    /\ ~hist[lastOp.id].overflowed
    /\ Len(hist[lastOp.id].delivered) > kNumElementsInQueue
    /\ listener[lastOp.id].readPtr = mBufferInvalidationQueue.writePtr

\* C9 as claimed: getInvalidations on a listener whose construction failed
\* completes, returning with the output vector as it was passed in.
C9_InvalidListenerReturnsEmpty ==
    [][ \A l \in Listeners :
          ( /\ InGetInvalidations(lastOp'.op) /\ lastOp'.id = l
            /\ listener[l].state = "invalid" )
          => ( /\ lastOp'.ret = "void"
               /\ listener'[l].state = "invalid"
               /\ invMessages'[l] \in {<<>>, invMessages[l]} )
      ]_vars

\* half of the id space: the antipodal distance
HalfSpace == 2^(IdBits - 1)

\* C11: isMessageLater(a, a) is false, and for a # b whose wrapping distance
\* is not half the id space exactly one of isMessageLater(a, b) and
\* isMessageLater(b, a) is true.
C11_MessageLaterAntisymmetric ==
    lastOp.op = "isMessageLater" =>
        LET a == lastOp.arg[1]
            b == lastOp.arg[2]
        IN  /\ a = b => lastOp.ret = FALSE
            /\ (a # b /\ Wrap(a - b) # HalfSpace) =>
                  (lastOp.ret = ~isMessageLater(b, a))

\* a call across the wrap point: 1 is later than the largest id
C11_Witness ==
    /\ lastOp.op = "isMessageLater"
    /\ lastOp.arg = <<1, 2^IdBits - 1>>
    /\ lastOp.ret = TRUE

\* C12: for from # to, isBufferInRange(from, to, id) is true exactly when id
\* is reached stepping forward from `from`, with wraparound, before `to`.
C12_BufferInRangeHalfOpen ==
    (lastOp.op = "isBufferInRange" /\ lastOp.arg[1] # lastOp.arg[2]) =>
        LET from == lastOp.arg[1]
            to   == lastOp.arg[2]
            id   == lastOp.arg[3]
        IN  lastOp.ret = (Wrap(id - from) < Wrap(to - from))

\* a wrapped interval and an id beyond the wrap point, inside the interval
C12_Witness ==
    /\ lastOp.op = "isBufferInRange"
    /\ lastOp.arg[1] > lastOp.arg[2]
    /\ lastOp.arg[3] < lastOp.arg[2]
    /\ lastOp.ret = TRUE

\* C20: when from = to, isBufferInRange(from, to, id) is true for every id.
C20_EqualEndpointsWholeSpace ==
    (lastOp.op = "isBufferInRange" /\ lastOp.arg[1] = lastOp.arg[2]) => lastOp.ret = TRUE

\* equal endpoints and an id below them
C20_Witness ==
    /\ lastOp.op = "isBufferInRange"
    /\ lastOp.arg[1] = lastOp.arg[2]
    /\ lastOp.arg[3] < lastOp.arg[1]
    /\ lastOp.ret = TRUE

\* the batch a drain must append: each registered connection's records
\* tagged with its key, connection after connection in increasing key order
RECURSIVE BatchInRegistryOrder(_)
BatchInRegistryOrder(S) ==
    IF S = {} THEN <<>>
    ELSE LET c == CHOOSE x \in S : \A y \in S : x <= y
         IN  TaggedQueue(c) \o BatchInRegistryOrder(S \ {c})

\* C16: every message getBufferStatusChanges appends carries the registry key
\* of the queue it was read from, whatever connectionId the writer stored, and
\* the batch holds each connection's messages contiguously, the connections
\* in registry (increasing key) order.
C16_TaggedAndGrouped ==
    [][ lastOp'.op = "getBufferStatusChanges" =>
          LET n == lastOp'.arg[1]
              appended == SubSeq(messages', n + 1, Len(messages'))
          IN  /\ appended = BatchInRegistryOrder(DOMAIN mBufferStatusQueues)
              /\ \A i \in 1..Len(appended) :
                    appended[i].connectionId \in DOMAIN mBufferStatusQueues
      ]_vars

\* a batch from both connections in which each writer had labelled its record
\* with the other connection's id
C16_Witness ==
    /\ lastOp.op = "getBufferStatusChanges"
    /\ \E i \in lastOp.arg[1] + 1 .. Len(messages) :
       \E k \in lastOp.arg[1] + 1 .. Len(messages) :
          /\ i < k
          /\ messages[i].connectionId = 1 /\ messages[i].transactionId = 8
          /\ messages[k].connectionId = 2 /\ messages[k].transactionId = 7

WriterOps ==
    {"postBufferRelease", "postBufferInvalidateAck", "postBufferStatusMessage", "postInvalidation"}

\* C13 as stated: every writer operation, postInvalidation included, makes
\* no more write() calls than the free capacity availableToWrite() reported
\* to it.
C13_EveryWriteConfirmed ==
    lastOp.op \in WriterOps => lastOp.writes <= lastOp.confirmed

\* C13: postBufferRelease, postBufferInvalidateAck and postBufferStatusMessage
\* make no more write() calls than the free capacity availableToWrite()
\* reported to the call; postInvalidation writes its record without asking
\* availableToWrite().
C13_ChannelWritesConfirmed ==
    /\ lastOp.op \in WriterOps \ {"postInvalidation"} => lastOp.writes <= lastOp.confirmed
    /\ lastOp.op = "postInvalidation" => (lastOp.writes = 1 /\ lastOp.confirmed = 0)

\* a release call that found fewer free slots than pending entries and wrote
\* exactly as many records as were free
C13_Witness ==
    /\ lastOp.op = "postBufferRelease"
    /\ lastOp.confirmed >= 1
    /\ lastOp.confirmed < lastOp.arg[2]
    /\ lastOp.writes = lastOp.confirmed

\* the lists a channel call found at entry and the records it has written
AtEntry(id) ==
    IF chanCall[id].pc = "idle"
    THEN [pending |-> pending[id], posted |-> posted[id], written |-> <<>>]
    ELSE [pending |-> chanCall[id].pending0, posted |-> chanCall[id].posted0,
          written |-> chanCall[id].written]

\* the release records for the buffers of ids, in order
Releases(ids, connectionId) ==
    [i \in 1..Len(ids) |-> ReleaseMessage(ids[i], connectionId)]

\* the records the channel call of id has written once the step is taken
WrittenAfterStep(id) ==
    IF id \in DOMAIN mBufferStatusQueues
          /\ Len(mBufferStatusQueues'[id]) = Len(mBufferStatusQueues[id]) + 1
    THEN Append(AtEntry(id).written, mBufferStatusQueues'[id][Len(mBufferStatusQueues'[id])])
    ELSE AtEntry(id).written

\* C14 as stated: whenever postBufferStatusMessage returns false the call has
\* written nothing and pending and posted are as at entry, and whenever it
\* returns true the call has written the release records of every entry that
\* was pending, directly followed by the status record.
C14_AllOrNothing ==
    [][ \A id \in ConnectionIds :
          (lastOp'.op = "postBufferStatusMessage" /\ lastOp'.id = id
             /\ lastOp'.ret # "pending")
          => LET e == AtEntry(id)
                 written == WrittenAfterStep(id)
             IN  /\ lastOp'.ret = "false" =>
                       (written = <<>> /\ pending'[id] = e.pending /\ posted'[id] = e.posted)
                 /\ lastOp'.ret = "true" =>
                       written = Append(Releases(e.pending, chanCall[id].arg[4]),
                                        StatusMessage(chanCall[id].arg))
      ]_vars

\* C14: postBufferStatusMessage returning false at its capacity test has
\* written nothing and left pending and posted alone; returning true it has
\* written the release records of every pending entry followed by the status
\* record and moved the entries to posted; returning false because a write
\* failed it has written the release records of a prefix of pending, moved
\* exactly that prefix to posted, and written no status record.
C14_AllOrNothingUnlessWriteFails ==
    [][ \A id \in ConnectionIds :
          (lastOp'.op = "postBufferStatusMessage" /\ lastOp'.id = id
             /\ lastOp'.ret # "pending")
          => LET e == AtEntry(id)
                 written == WrittenAfterStep(id)
                 P == Len(e.pending)
             IN  /\ (lastOp'.ret = "false" /\ lastOp'.arg[1] \in {"entry", "avail"}) =>
                       /\ written = <<>>
                       /\ pending'[id] = e.pending /\ posted'[id] = e.posted
                       /\ mBufferStatusQueues' = mBufferStatusQueues
                 /\ lastOp'.ret = "true" =>
                       /\ written = Append(Releases(e.pending, chanCall[id].arg[4]),
                                           StatusMessage(chanCall[id].arg))
                       /\ pending'[id] = <<>>
                       /\ posted'[id] = e.posted \o e.pending
                 /\ (lastOp'.ret = "false" /\ lastOp'.arg[1] \in {"flush", "status"}) =>
                       \E k \in 0..P :
                          /\ written = Releases(SubSeq(e.pending, 1, k), chanCall[id].arg[4])
                          /\ posted'[id] = e.posted \o SubSeq(e.pending, 1, k)
                          /\ pending'[id] = SubSeq(e.pending, k + 1, P)
      ]_vars

\* the status write failed on a full queue whose newest record is a release
\* this call had flushed: the call returned false with the entry moved to posted
C14_Witness ==
    /\ lastOp.op = "postBufferStatusMessage"
    /\ lastOp.ret = "false"
    /\ lastOp.arg = <<"status", 0, FALSE>>
    /\ availableToWrite(mBufferStatusQueues[lastOp.id]) = 0
    /\ LET q == mBufferStatusQueues[lastOp.id]
       IN  q[Len(q)].status = "NOT_USED" /\ q[Len(q)].transactionId = 0
    /\ posted[lastOp.id] # <<>>
    /\ pending[lastOp.id] = <<>>

\* the buffer ids of the NOT_USED records of seq, in order
ReleasedIds(seq) ==
    LET rel == SelectSeq(seq, LAMBDA m : m.status = "NOT_USED")
    IN  [i \in 1..Len(rel) |-> rel[i].bufferId]

\* C15: when a postBufferRelease or postBufferStatusMessage call returns,
\* also after a failed write, posted ++ pending is the sequence it was at
\* entry, posted has only grown at its end, and the buffer ids appended to
\* posted are the buffer ids of the NOT_USED records the call wrote; every
\* single step of such a call preserves posted ++ pending as well.
C15_PendingPostedConserved ==
    [][ \A id \in ConnectionIds :
          (lastOp'.op \in {"postBufferRelease", "postBufferStatusMessage"} /\ lastOp'.id = id)
          => LET e == AtEntry(id)
                 n == Len(e.posted)
             IN  /\ posted'[id] \o pending'[id] = posted[id] \o pending[id]
                 /\ lastOp'.ret # "pending" =>
                       /\ posted'[id] \o pending'[id] = e.posted \o e.pending
                       /\ Len(posted'[id]) >= n
                       /\ SubSeq(posted'[id], 1, n) = e.posted
                       /\ SubSeq(posted'[id], n + 1, Len(posted'[id]))
                             = ReleasedIds(WrittenAfterStep(id))
      ]_vars

\* a postBufferRelease call ended by a failed write after it had moved one of
\* two pending entries
C15_Witness ==
    /\ lastOp.op = "postBufferRelease"
    /\ lastOp.arg = <<"write", 0, FALSE>>
    /\ pending[lastOp.id] # <<>>
    /\ posted[lastOp.id] # <<>>
    /\ LET q == mBufferStatusQueues[lastOp.id]
           p == posted[lastOp.id]
       IN  \E i \in 1..Len(q) : q[i].status = "NOT_USED" /\ q[i].bufferId = p[Len(p)]

\* C17: when a read fails inside getBufferStatusChanges the call returns at
\* once: the messages drained so far stay in the output, nothing more is read
\* from this or a later connection, and the registry (its ids and the
\* contents of their queues) is as before, so the connection stays registered
\* for the next call.
C17_ReadFailureReturns ==
    [][ (lastOp'.op = "getBufferStatusChanges" /\ lastOp'.arg[1] = "read"
            /\ lastOp'.arg[4] = FALSE)
        => /\ lastOp'.ret = "void"
           /\ obsCall'.pc = "idle"
           /\ messages' = messages
           /\ mBufferStatusQueues' = mBufferStatusQueues
           /\ lastOp'.arg[2] \in DOMAIN mBufferStatusQueues'
      ]_vars

\* a read of connection 1 failed after one of its records had been drained,
\* and the call returned leaving connection 2's records unread
C17_Witness ==
    /\ lastOp.op = "getBufferStatusChanges"
    /\ lastOp.arg = <<"read", 1, 0, FALSE>>
    /\ obsCall.pc = "idle"
    /\ Len(messages) >= 1
    /\ 2 \in DOMAIN mBufferStatusQueues
    /\ mBufferStatusQueues[2] # <<>>

\* what is left of a getBufferStatusChanges call: connections still to visit,
\* then reads still to do on the current one
DrainMeasure(c) ==
    Cardinality(c.todo) * (kNumElementsInQueue + 2)
       + (CASE c.pc = "read" -> c.avail
            [] c.pc = "avail" -> kNumElementsInQueue + 1
            [] OTHER -> 0)

\* C19: getBufferStatusChanges terminates although the channels keep posting:
\* for each connection it takes availableToRead() once and then reads exactly
\* that many records, oldest first; a post during the call adds its record to
\* the queue without adding to what the call will read, so records arriving
\* after the snapshot stay in the queue; every step of the call strictly
\* lowers a natural-number measure of the work left (connections still to
\* visit, then reads still to do), which no post raises.
C19_DrainStepsBounded ==
    [][ /\ (lastOp'.op = "getBufferStatusChanges" /\ lastOp'.arg[1] = "avail") =>
             /\ mBufferStatusQueues' = mBufferStatusQueues
             /\ obsCall'.pc = "read" =>
                   obsCall'.avail = availableToRead(mBufferStatusQueues[lastOp'.arg[2]])
             /\ DrainMeasure(obsCall') < DrainMeasure(obsCall)
        /\ (lastOp'.op = "getBufferStatusChanges" /\ lastOp'.arg[1] = "read") =>
             LET c == lastOp'.arg[2]
             IN  /\ lastOp'.arg[4] = TRUE
                 /\ mBufferStatusQueues'[c] = Tail(mBufferStatusQueues[c])
                 /\ messages' = Append(messages,
                       [Head(mBufferStatusQueues[c]) EXCEPT !.connectionId = c])
                 /\ \A d \in DOMAIN mBufferStatusQueues \ {c} :
                       mBufferStatusQueues'[d] = mBufferStatusQueues[d]
                 /\ obsCall.avail = 1 => c \notin obsCall'.todo
                 /\ DrainMeasure(obsCall') < DrainMeasure(obsCall)
        /\ lastOp'.op = "postBufferStatusMessage" =>
             /\ obsCall' = obsCall
             /\ messages' = messages
             /\ lastOp'.ret = "true" =>
                   LET c == lastOp'.id
                   IN  /\ Len(mBufferStatusQueues'[c]) = Len(mBufferStatusQueues[c]) + 1
                       /\ SubSeq(mBufferStatusQueues'[c], 1, Len(mBufferStatusQueues[c]))
                             = mBufferStatusQueues[c]
      ]_vars

\* C19: getBufferStatusChanges always terminates, also while the channels
\* keep posting during the drain: every call that has started returns, and on
\* the way it reads from each connection no more than availableToRead()
\* reported when it reached the connection, leaving later records queued.
C19_DrainTerminates ==
    /\ C19_DrainStepsBounded
    /\ (obsCall.pc # "idle") ~> (obsCall.pc = "idle")

\* the call returned from its last read of connection 2 while a record that
\* connection 2 posted after the snapshot is still in the queue
C19_Witness ==
    /\ lastOp.op = "getBufferStatusChanges"
    /\ lastOp.arg = <<"read", 2, 0, TRUE>>
    /\ lastOp.ret = "void"
    /\ obsCall.pc = "idle"
    /\ mBufferStatusQueues[2] # <<>>
    /\ Len(messages) >= 2

\* the writes a channel call in progress still has to make
Remaining(c) ==
    CASE c.pc = "release" -> c.n
      [] c.pc = "flush"   -> c.n + 1
      [] c.pc = "status"  -> 1
      [] c.pc = "ack"     -> 1
      [] OTHER            -> 0

\* C18: with one channel writing and the observer reading the same queue, in
\* every interleaving the queue still has a free slot for each write a call
\* in progress has left to make and still holds each record the drain in
\* progress has left to read, and no write or read of either has failed.
C18_ConfirmedCapacityHolds ==
    /\ \A id \in ConnectionIds :
          chanCall[id].pc # "idle" =>
             availableToWrite(mBufferStatusQueues[id]) >= Remaining(chanCall[id])
    /\ obsCall.pc = "read" =>
          availableToRead(mBufferStatusQueues[Current]) >= obsCall.avail
    /\ (lastOp.op \in {"postBufferRelease", "postBufferInvalidateAck", "postBufferStatusMessage"}
           /\ lastOp.arg[1] \in {"write", "flush", "status"}) => lastOp.arg[3] = TRUE
    /\ (lastOp.op = "getBufferStatusChanges" /\ lastOp.arg[1] = "read") => lastOp.arg[4] = TRUE

\* a release call and a drain both in progress on the same queue: the channel
\* has written a record and has more to write, the observer has taken
\* availableToRead() and is about to read
C18_Witness ==
    /\ chanCall[1].pc = "release"
    /\ chanCall[1].written # <<>>
    /\ obsCall.pc = "read"
    /\ obsCall.avail >= 1

====
